---- MODULE Spec2Model ----
(***************************************************************************)
(* A model of the Turing machine emulator of main.py: the auto-growing     *)
(* strip (_TuringStrip), the instruction table and the step/halt machine   *)
(* (TuringMachine).                                                        *)
(*                                                                         *)
(* Python lists are objects: a strip holds a REFERENCE to a list.  The     *)
(* model keeps a heap of list objects (heap) and, per machine, the id of   *)
(* the list its strip refers to (data), so that in-place mutation          *)
(* (self._data[key] = value, self._data += ...) and rebinding              *)
(* (self._data = ... + self._data) are told apart.                         *)
(***************************************************************************)
EXTENDS Integers, Sequences, FiniteSets, TLC

\* ---------------------------------------------------------------- bounds
MaxOps == 3        \* calls of step / val setter / __setitem__ in one run
MaxPos == 2        \* coordinates -MaxPos..MaxPos for direct strip accesses
MaxWord == 1       \* length of the initial word
MaxInstr == 2      \* length of the instruction list

\* ------------------------------------------------------ TuringDirection
L == 0 - 1
S == 0
R == 1

\* ---------------------------------------------------- TuringInstruction
TuringInstruction(ss, sv, es, ev, d) ==
    [start_state |-> ss, start_value |-> sv,
     end_state |-> es, end_value |-> ev, direction |-> d]

\* The instructions the instruction lists are drawn from: every direction,
\* both written values, a duplicated key (1, FALSE), an entry that leaves
\* to state 0 and an entry whose start_state is 0.
InstructionPool ==
    { TuringInstruction(1, FALSE, 1, TRUE, R),
      TuringInstruction(1, FALSE, 1, FALSE, L),
      TuringInstruction(1, TRUE, 2, TRUE, S),
      TuringInstruction(2, FALSE, 0, TRUE, L),
      TuringInstruction(0, FALSE, 1, TRUE, R) }

InitialStates == 0..2
InitialPositions == (0 - 1)..1

SeqsUpTo(X, n) == UNION { [1..k -> X] : k \in 0..n }

\* --------------------------------------------------------------- dict
\* A Python dict is a sequence of <<key, value>> entries in insertion
\* order; assigning to a present key keeps the key's place.
DictHas(d, k) == \E i \in 1..Len(d) : d[i][1] = k

DictGet(d, k) == d[CHOOSE i \in 1..Len(d) : d[i][1] = k][2]

\* A variant of the dict assignment with a slip: a present key keeps its
\* value (setdefault).
DictSetKeepsFirst(d, k, v) ==
    IF DictHas(d, k)
    THEN d
    ELSE Append(d, <<k, v>>)

DictSet(d, k, v) ==
    IF DictHas(d, k)
    THEN [i \in 1..Len(d) |-> IF d[i][1] = k THEN <<k, v>> ELSE d[i]]
    ELSE Append(d, <<k, v>>)

DictValues(d) == [i \in 1..Len(d) |-> d[i][2]]

\* TuringMachine.__set_instructions_map: the loop over the list, from the
\* empty dict.
RECURSIVE SetInstructionsMapFrom(_, _, _)
SetInstructionsMapFrom(map, instructions, k) ==
    IF k > Len(instructions) THEN map
    ELSE SetInstructionsMapFrom(
             DictSet(map,
                     <<instructions[k].start_state, instructions[k].start_value>>,
                     instructions[k]),
             instructions, k + 1)

SetInstructionsMap(instructions) == SetInstructionsMapFrom(<<>>, instructions, 1)

\* ------------------------------------------------ instructions from text
\* A Python str is the sequence of its characters.
Digits == <<"0", "1", "2", "3", "4", "5", "6", "7", "8", "9">>

IsDigit(c) == \E d \in 1..10 : Digits[d] = c

DigitValue(c) == (CHOOSE d \in 1..10 : Digits[d] = c) - 1

\* int() of a non-empty string of decimal digits.
RECURSIVE IntOf(_)
IntOf(ds) ==
    IF Len(ds) = 0 THEN 0
    ELSE 10 * IntOf(SubSeq(ds, 1, Len(ds) - 1)) + DigitValue(ds[Len(ds)])

\* TuringDirection.from_str
DirectionFromStr(c) == IF c = "L" THEN L ELSE IF c = "S" THEN S ELSE R

\* The places j of the second "q" at which the pattern
\*   q([0-9]+)([0-1])q([0-9]+)([0-1])([LSR])
\* matches the whole of s: s[2..j-2] and s[j+1..n-2] are the two states,
\* s[j-1] and s[n-1] the two values, s[n] the direction.
MatchPlaces(s) ==
    LET n == Len(s)
    IN {j \in 4..(n - 3) :
          /\ s[1] = "q"
          /\ \A k \in 2..(j - 2) : IsDigit(s[k])
          /\ s[j - 1] \in {"0", "1"}
          /\ s[j] = "q"
          /\ \A k \in (j + 1)..(n - 2) : IsDigit(s[k])
          /\ s[n - 1] \in {"0", "1"}
          /\ s[n] \in {"L", "S", "R"}}

\* A variant of from_str with a slip: the groups start_val and end_val are
\* taken from each other's place.
FromStrSwapsValues(s) ==
    IF MatchPlaces(s) = {} THEN <<>>
    ELSE LET n == Len(s)
             j == CHOOSE j \in MatchPlaces(s) :
                      \A i \in MatchPlaces(s) : i <= j
         IN <<TuringInstruction(IntOf(SubSeq(s, 2, j - 2)),
                                s[n - 1] = "1",
                                IntOf(SubSeq(s, j + 1, n - 2)),
                                s[j - 1] = "1",
                                DirectionFromStr(s[n]))>>

\* TuringInstruction.from_str: <<the instruction>>, or <<>> when it raises
\* ValueError.
FromStr(s) ==
    IF MatchPlaces(s) = {} THEN <<>>
    ELSE LET n == Len(s)
             j == CHOOSE j \in MatchPlaces(s) :
                      \A i \in MatchPlaces(s) : i <= j
         IN <<TuringInstruction(IntOf(SubSeq(s, 2, j - 2)),
                                s[j - 1] = "1",
                                IntOf(SubSeq(s, j + 1, n - 2)),
                                s[n - 1] = "1",
                                DirectionFromStr(s[n]))>>

\* main_interactive: the instructions of the lines entered, a line that
\* raises ValueError being skipped.
RECURSIVE ReadInstructions(_)
ReadInstructions(lines) ==
    IF lines = <<>> THEN <<>>
    ELSE FromStr(Head(lines)) \o ReadInstructions(Tail(lines))

\* main_interactive: word = [s == "1" for s in word_str]
ReadWord(word_str) == [i \in 1..Len(word_str) |-> word_str[i] = "1"]

\* The lines and words the runs of main are given.
InputLines ==
    { <<"q", "1", "0", "0", "q", "1", "1", "S">>,
      <<"q", "1", "1", "0", "q", "2", "0", "R">>,
      <<"q", "1", "0", "q", "1", "1", "S">>,
      <<"q", "1", "1", "q", "2", "1", "R">>,
      <<"q", "1", "0", "q", "1", "0", "L">>,
      <<"q", "1", "q", "1", "1", "S">> }

InputWords ==
    { <<>>, <<"0">>, <<"1">>, <<"0", "1">> }

\* --------------------------------------------------------- _TuringStrip
Blanks(n) == [i \in 1..n |-> FALSE]

Abs(n) == IF n < 0 THEN 0 - n ELSE n

\* _TuringStrip.get_cursor
GetCursor(off, pos) == pos + off

\* A variant of __getitem__ with a slip: a read outside the window appends
\* or prepends blanks as a write would.
StripGetItemGrows(lst, off, item) ==
    LET i == item + off
        grown == IF i < 0 THEN Blanks(Abs(i)) \o lst
                 ELSE IF i >= Len(lst) THEN lst \o Blanks(i - Len(lst) + 1)
                 ELSE lst
    IN [ret |-> IF i \notin 0..(Len(lst) - 1) THEN FALSE ELSE lst[i + 1],
        lst |-> grown,
        off |-> IF i < 0 THEN off - i ELSE off]

\* _TuringStrip.__getitem__ on a strip whose list is lst and whose offset
\* is off: the value returned, and the strip it leaves behind.
StripGetItem(lst, off, item) ==
    LET i == item + off
    IN [ret |-> IF i \notin 0..(Len(lst) - 1) THEN FALSE ELSE lst[i + 1],
        lst |-> lst,
        off |-> off]

\* Variants of __setitem__ with one slip each: the offset is not updated
\* on leftward growth.
StripSetItemKeepsOffset(lst, off, key0, value) ==
    LET key1  == key0 + off
        neg   == key1 < 0
        lst2  == IF neg THEN Blanks(Abs(key1)) \o lst ELSE lst
        key2  == IF neg THEN 0 ELSE key1
        lst3  == IF key2 >= Len(lst2)
                 THEN lst2 \o Blanks(key2 - Len(lst2) + 1)
                 ELSE lst2
    IN [lst |-> [lst3 EXCEPT ![key2 + 1] = value],
        off |-> off,
        rebound |-> neg]

\* The cells added by a growth are filled with the value written.
StripSetItemFillsValue(lst, off, key0, value) ==
    LET key1  == key0 + off
        neg   == key1 < 0
        off2  == IF neg THEN off - key1 ELSE off
        lst2  == IF neg THEN [i \in 1..Abs(key1) |-> value] \o lst ELSE lst
        key2  == IF neg THEN 0 ELSE key1
        lst3  == IF key2 >= Len(lst2)
                 THEN lst2 \o [i \in 1..(key2 - Len(lst2) + 1) |-> value]
                 ELSE lst2
    IN [lst |-> [lst3 EXCEPT ![key2 + 1] = value],
        off |-> off2,
        rebound |-> neg]

\* The shortfall is added to the offset with the wrong sign.
StripSetItemSign(lst, off, key0, value) ==
    LET key1  == key0 + off
        neg   == key1 < 0
        off2  == IF neg THEN off + key1 ELSE off
        lst2  == IF neg THEN Blanks(Abs(key1)) \o lst ELSE lst
        key2  == IF neg THEN 0 ELSE key1
        lst3  == IF key2 >= Len(lst2)
                 THEN lst2 \o Blanks(key2 - Len(lst2) + 1)
                 ELSE lst2
    IN [lst |-> [lst3 EXCEPT ![key2 + 1] = value],
        off |-> off2,
        rebound |-> neg]

\* _TuringStrip.__setitem__: the list and offset it leaves behind; rebound
\* tells whether self._data now names a NEW list object (line 80) or the
\* list object it named before, mutated in place (lines 83, 85).
StripSetItem(lst, off, key0, value) ==
    LET key1  == key0 + off
        neg   == key1 < 0
        off2  == IF neg THEN off - key1 ELSE off
        lst2  == IF neg THEN Blanks(Abs(key1)) \o lst ELSE lst
        key2  == IF neg THEN 0 ELSE key1
        lst3  == IF key2 >= Len(lst2)
                 THEN lst2 \o Blanks(key2 - Len(lst2) + 1)
                 ELSE lst2
    IN [lst |-> [lst3 EXCEPT ![key2 + 1] = value],
        off |-> off2,
        rebound |-> neg]

\* _TuringStrip.__str__
RECURSIVE StripStr(_)
StripStr(lst) ==
    IF lst = <<>> THEN <<>>
    ELSE <<IF Head(lst) THEN "1" ELSE "0">> \o StripStr(Tail(lst))

\* ---------------------------------------------------------- descriptions
BoolInt(b) == IF b THEN 1 ELSE 0

DirectionName(d) == IF d = L THEN "L" ELSE IF d = S THEN "S" ELSE "R"

\* ' ' * cursor: a negative count yields the empty string.
Spaces(n) == [i \in 1..n |-> " "]

\* TuringInstruction.__str__
InstructionStr(i) ==
    <<"q", i.start_state, " ", BoolInt(i.start_value), " -> ",
      "q", i.end_state, " ", BoolInt(i.end_value), " ", DirectionName(i.direction)>>

\* TuringMachine.get_current_description: the five lines of the snapshot.
CurrentDescription(st, pos, cnt, lst, off) ==
    LET cursor == GetCursor(off, pos)
        word == StripStr(lst)
    IN << <<"Step #", cnt>>,
          <<"STATE: q", st>>,
          word,
          Spaces(cursor) \o <<"^">>,
          <<"----------------">> >>

\* TuringMachine.get_instructions_description
InstructionsDescription(map) ==
    << <<"Instruction set:">> >> \o
    [i \in 1..Len(map) |-> InstructionStr(DictValues(map)[i])]

\* ------------------------------------------------------- TuringMachine
\* Variants of step with one slip each, used to show that the properties
\* below depend on the code: the write lands on the cell the head moves to.
StepResultMovesFirst(st, pos, cnt, map, lst, off) ==
    LET val == StripGetItem(lst, off, pos).ret
        same == [lst |-> lst, off |-> off, rebound |-> FALSE]
    IN IF st = 0 \/ ~DictHas(map, <<st, val>>)
       THEN [ret |-> TRUE, state |-> st, position |-> pos, step |-> cnt,
             wrote |-> FALSE, value |-> FALSE, strip |-> same]
       ELSE LET instr == DictGet(map, <<st, val>>)
            IN [ret |-> FALSE,
                state |-> instr.end_state,
                position |-> pos + instr.direction,
                step |-> cnt + 1,
                wrote |-> TRUE, value |-> instr.end_value,
                strip |-> StripSetItem(lst, off, pos + instr.direction,
                                       instr.end_value)]

\* The test for the end state 0 is missing.
StepResultNoEndState(st, pos, cnt, map, lst, off) ==
    LET val == StripGetItem(lst, off, pos).ret
        same == [lst |-> lst, off |-> off, rebound |-> FALSE]
    IN IF ~DictHas(map, <<st, val>>)
       THEN [ret |-> TRUE, state |-> st, position |-> pos, step |-> cnt,
             wrote |-> FALSE, value |-> FALSE, strip |-> same]
       ELSE LET instr == DictGet(map, <<st, val>>)
            IN [ret |-> FALSE,
                state |-> instr.end_state,
                position |-> pos + instr.direction,
                step |-> cnt + 1,
                wrote |-> TRUE, value |-> instr.end_value,
                strip |-> StripSetItem(lst, off, pos, instr.end_value)]

\* The undefined-instruction halt stores the value it read back into the
\* cell, which materializes it.
StepResultMaterializes(st, pos, cnt, map, lst, off) ==
    LET val == StripGetItem(lst, off, pos).ret
        same == [lst |-> lst, off |-> off, rebound |-> FALSE]
    IN IF st = 0
       THEN [ret |-> TRUE, state |-> st, position |-> pos, step |-> cnt,
             wrote |-> FALSE, value |-> FALSE, strip |-> same]
       ELSE IF ~DictHas(map, <<st, val>>)
       THEN [ret |-> TRUE, state |-> st, position |-> pos, step |-> cnt,
             wrote |-> FALSE, value |-> FALSE, strip |-> StripSetItem(lst, off, pos, val)]
       ELSE LET instr == DictGet(map, <<st, val>>)
            IN [ret |-> FALSE,
                state |-> instr.end_state,
                position |-> pos + instr.direction,
                step |-> cnt + 1,
                wrote |-> TRUE, value |-> instr.end_value,
                strip |-> StripSetItem(lst, off, pos, instr.end_value)]

\* The step counter is incremented before the two halting tests.
StepResultCountsFirst(st, pos, cnt, map, lst, off) ==
    LET val == StripGetItem(lst, off, pos).ret
        same == [lst |-> lst, off |-> off, rebound |-> FALSE]
    IN IF st = 0 \/ ~DictHas(map, <<st, val>>)
       THEN [ret |-> TRUE, state |-> st, position |-> pos, step |-> cnt + 1,
             wrote |-> FALSE, value |-> FALSE, strip |-> same]
       ELSE LET instr == DictGet(map, <<st, val>>)
            IN [ret |-> FALSE,
                state |-> instr.end_state,
                position |-> pos + instr.direction,
                step |-> cnt + 1,
                wrote |-> TRUE, value |-> instr.end_value,
                strip |-> StripSetItem(lst, off, pos, instr.end_value)]

\* The val setter is not called when the instruction writes the value the
\* cell already reads.
StepResultSkipsSameValue(st, pos, cnt, map, lst, off) ==
    LET val == StripGetItem(lst, off, pos).ret
        same == [lst |-> lst, off |-> off, rebound |-> FALSE]
    IN IF st = 0 \/ ~DictHas(map, <<st, val>>)
       THEN [ret |-> TRUE, state |-> st, position |-> pos, step |-> cnt,
             wrote |-> FALSE, value |-> FALSE, strip |-> same]
       ELSE LET instr == DictGet(map, <<st, val>>)
            IN [ret |-> FALSE,
                state |-> instr.end_state,
                position |-> pos + instr.direction,
                step |-> cnt + 1,
                wrote |-> TRUE, value |-> instr.end_value,
                strip |-> IF instr.end_value = val THEN same
                          ELSE StripSetItem(lst, off, pos, instr.end_value)]

\* TuringMachine.step as a function of the machine's fields and of the
\* list its strip refers to: the flag returned, the fields it leaves, whether
\* it called the val setter and with which value, and the strip it leaves
\* (as StripSetItem reports it).
StepResult(st, pos, cnt, map, lst, off) ==
    LET val == StripGetItem(lst, off, pos).ret
        same == [lst |-> lst, off |-> off, rebound |-> FALSE]
    IN IF st = 0
       THEN [ret |-> TRUE, state |-> st, position |-> pos, step |-> cnt,
             wrote |-> FALSE, value |-> FALSE, strip |-> same]
       ELSE IF ~DictHas(map, <<st, val>>)
       THEN [ret |-> TRUE, state |-> st, position |-> pos, step |-> cnt,
             wrote |-> FALSE, value |-> FALSE, strip |-> same]
       ELSE LET instr == DictGet(map, <<st, val>>)
            IN [ret |-> FALSE,
                state |-> instr.end_state,
                position |-> pos + instr.direction,
                step |-> cnt + 1,
                wrote |-> TRUE, value |-> instr.end_value,
                strip |-> StripSetItem(lst, off, pos, instr.end_value)]

\* ------------------------------------------------------------ the state
VARIABLES
    state,             \* machine -> TuringMachine._state
    position,          \* machine -> TuringMachine._position
    step,              \* machine -> TuringMachine._step
    instructions_map,  \* machine -> TuringMachine._instructions_map
    data,              \* machine -> id of the list _strip._data refers to
    offset,            \* machine -> _strip._offset
    heap,              \* list id -> contents of that list object
    initial,           \* history: machine -> the word it was built from
    written,           \* history: machine -> coordinate -> last value written
    rets,              \* history: machine -> flags returned by step() so far
    halted_at,         \* history: machine -> <<>> or <<configuration at the
                       \*          first step() that returned True>>
    nops,              \* history: number of step / setter calls so far
    last,              \* history: the last call and what it returned
    pre,               \* history: the program state before the last call
    given,             \* history: machine -> the instruction list it was
                       \*          built from
    input              \* history: the lines and the word main was given

prog == <<state, position, step, instructions_map, data, offset, heap>>
hist == <<initial, written, rets, halted_at, nops, last, pre, given, input>>
vars == <<state, position, step, instructions_map, data, offset, heap,
          initial, written, rets, halted_at, nops, last, pre, given, input>>

Machines == DOMAIN state

Coords == (0 - MaxPos)..MaxPos

Snapshot ==
    [state |-> state, position |-> position, step |-> step,
     data |-> data, offset |-> offset, heap |-> heap]

\* The list a machine's strip refers to, now and before the last call.
Tape(m) == heap[data[m]]
PreTape(m) == pre.heap[pre.data[m]]

\* What a read of coordinate c on machine m's strip returns, now and
\* before the last call.
Read(m, c) == StripGetItem(Tape(m), offset[m], c).ret
PreRead(m, c) == StripGetItem(PreTape(m), pre.offset[m], c).ret

Configuration(m) ==
    [state |-> state[m], position |-> position[m], step |-> step[m],
     tape |-> Tape(m), offset |-> offset[m]]

Call(op, m, key, value, ret, out) ==
    [op |-> op, m |-> m, key |-> key, value |-> value, ret |-> ret, out |-> out]

\* ----------------------------------------------------------- construction
\* TuringMachine.__init__ for every machine of ms: all are built from the
\* same instruction list, state and position and from equal words; listOf
\* says which list OBJECT each machine is handed as its word.
Construct(ms, instructions, word, st, pos, listOf) ==
    /\ state = [m \in ms |-> st]
    /\ position = [m \in ms |-> pos]
    /\ instructions_map = [m \in ms |-> SetInstructionsMap(instructions)]
    /\ data = [m \in ms |-> listOf[m]]
    /\ heap = [i \in {listOf[m] : m \in ms} |-> word]
    /\ offset = [m \in ms |-> 0]
    /\ step = [m \in ms |-> 0]
    /\ initial = [m \in ms |-> word]
    /\ written = [m \in ms |-> <<>>]
    /\ rets = [m \in ms |-> <<>>]
    /\ halted_at = [m \in ms |-> <<>>]
    /\ nops = 0
    /\ last = Call("init", 0, 0, FALSE, FALSE, <<>>)
    /\ pre = Snapshot
    /\ given = [m \in ms |-> instructions]

\* The machine was built by a caller that read no text.
NoInput == [lines |-> <<>>, word |-> <<>>]

\* One machine, as main_interactive and main_file build it.
Init ==
    \E instructions \in SeqsUpTo(InstructionPool, MaxInstr),
       word \in SeqsUpTo(BOOLEAN, MaxWord),
       st \in InitialStates,
       pos \in InitialPositions :
        /\ Construct({1}, instructions, word, st, pos, [m \in {1} |-> 1])
        /\ input = NoInput

\* --------------------------------------------------------------- the heap
\* The id a new list object gets when machine m's strip rebinds _data: the
\* least id no other machine's strip refers to (a list no strip refers to
\* any more is garbage, its id is free).
NewListId(m) ==
    LET used == {data[o] : o \in Machines \ {m}}
    IN CHOOSE i \in 1..(Cardinality(Machines) + 1) :
           /\ i \notin used
           /\ \A j \in 1..(Cardinality(Machines) + 1) : j \notin used => i <= j

\* Machine m's strip becomes r (a result of StripGetItem or StripSetItem):
\* when r.rebound, _data names a new list object and the old one is left
\* as it was; otherwise the list object _data names is changed in place,
\* for every strip that refers to it.
StoreStrip(m, r, rebound) ==
    LET id == IF rebound THEN NewListId(m) ELSE data[m]
        newData == [data EXCEPT ![m] = id]
    IN /\ data' = newData
       /\ offset' = [offset EXCEPT ![m] = r.off]
       /\ heap' = [i \in {newData[o] : o \in Machines} |->
                      IF i = id THEN r.lst ELSE heap[i]]

Record(call) ==
    /\ last' = call
    /\ pre' = Snapshot
    /\ UNCHANGED <<given, input>>

\* ------------------------------------------------------- strip operations
\* _strip[item], called on the strip directly.
GetItem(m, item) ==
    LET r == StripGetItem(Tape(m), offset[m], item)
    IN /\ StoreStrip(m, r, FALSE)
       /\ Record(Call("getitem", m, item, FALSE, r.ret, <<>>))
       /\ UNCHANGED <<state, position, step, instructions_map,
                      initial, written, rets, halted_at, nops>>

\* _strip[key] = value, called on the strip directly.
SetItem(m, key, value) ==
    LET r == StripSetItem(Tape(m), offset[m], key, value)
    IN /\ nops < MaxOps
       /\ StoreStrip(m, r, r.rebound)
       /\ written' = [written EXCEPT ![m] = (key :> value) @@ @]
       /\ nops' = nops + 1
       /\ Record(Call("setitem", m, key, value, FALSE, <<>>))
       /\ UNCHANGED <<state, position, step, instructions_map,
                      initial, rets, halted_at>>

\* ----------------------------------------------------- machine operations
\* TuringMachine.val (getter)
Val(m) ==
    LET r == StripGetItem(Tape(m), offset[m], position[m])
    IN /\ StoreStrip(m, r, FALSE)
       /\ Record(Call("val", m, position[m], FALSE, r.ret, <<>>))
       /\ UNCHANGED <<state, position, step, instructions_map,
                      initial, written, rets, halted_at, nops>>

\* TuringMachine.val (setter)
SetVal(m, value) ==
    LET r == StripSetItem(Tape(m), offset[m], position[m], value)
    IN /\ nops < MaxOps
       /\ StoreStrip(m, r, r.rebound)
       /\ written' = [written EXCEPT ![m] = (position[m] :> value) @@ @]
       /\ nops' = nops + 1
       /\ Record(Call("setval", m, position[m], value, FALSE, <<>>))
       /\ UNCHANGED <<state, position, step, instructions_map,
                      initial, rets, halted_at>>

\* TuringMachine.step
Step(m) ==
    LET r == StepResult(state[m], position[m], step[m], instructions_map[m],
                        Tape(m), offset[m])
    IN /\ nops < MaxOps
       /\ state' = [state EXCEPT ![m] = r.state]
       /\ position' = [position EXCEPT ![m] = r.position]
       /\ step' = [step EXCEPT ![m] = r.step]
       /\ StoreStrip(m, r.strip, r.strip.rebound)
       /\ written' = IF r.wrote
                     THEN [written EXCEPT ![m] =
                              (position[m] :> r.value) @@ @]
                     ELSE written
       /\ rets' = [rets EXCEPT ![m] = Append(@, r.ret)]
       /\ halted_at' = IF r.ret /\ halted_at[m] = <<>>
                       THEN [halted_at EXCEPT ![m] = <<Configuration(m)'>>]
                       ELSE halted_at
       /\ nops' = nops + 1
       /\ Record(Call("step", m, position[m], r.value, r.ret, <<>>))
       /\ UNCHANGED <<instructions_map, initial>>

\* TuringMachine.get_current_description
GetCurrentDescription(m) ==
    /\ Record(Call("describe", m, 0, FALSE, FALSE,
                   CurrentDescription(state[m], position[m], step[m],
                                      Tape(m), offset[m])))
    /\ UNCHANGED <<prog, initial, written, rets, halted_at, nops>>

\* TuringMachine.get_instructions_description
GetInstructionsDescription(m) ==
    /\ Record(Call("instructions", m, 0, FALSE, FALSE,
                   InstructionsDescription(instructions_map[m])))
    /\ UNCHANGED <<prog, initial, written, rets, halted_at, nops>>

\* ------------------------------------------------------- specifications
\* The machine's public operations.
Next ==
    \E m \in Machines :
        \/ Step(m)
        \/ Val(m)
        \/ \E v \in BOOLEAN : SetVal(m, v)
        \/ GetCurrentDescription(m)
        \/ GetInstructionsDescription(m)

Spec == Init /\ [][Next]_vars

\* main_interactive: the machine is built from the lines and the word
\* entered, with the default state 1 and position 0, and main then steps it
\* and prints its descriptions.
InitMain ==
    \E lines \in SeqsUpTo(InputLines, MaxInstr),
       word_str \in InputWords :
        /\ Construct({1}, ReadInstructions(lines), ReadWord(word_str), 1, 0,
                     [m \in {1} |-> 1])
        /\ input = [lines |-> lines, word |-> word_str]

NextMain ==
    \E m \in Machines :
        \/ Step(m)
        \/ GetCurrentDescription(m)
        \/ GetInstructionsDescription(m)

SpecMain == InitMain /\ [][NextMain]_vars

\* Only step() is called.
NextStep == \E m \in Machines : Step(m)

SpecStep == Init /\ [][NextStep]_vars

\* The machine's operations and direct accesses to its strip at arbitrary
\* coordinates.
NextAll ==
    \/ Next
    \/ \E m \in Machines, c \in Coords : GetItem(m, c)
    \/ \E m \in Machines, c \in Coords, v \in BOOLEAN : SetItem(m, c, v)

\* One machine in state 1 at position 0 with a table of at most one
\* instruction: the runs of SpecAll vary the accesses to the strip.
InitAll ==
    \E instructions \in SeqsUpTo(InstructionPool, 1),
       word \in SeqsUpTo(BOOLEAN, MaxWord) :
        /\ Construct({1}, instructions, word, 1, 0, [m \in {1} |-> 1])
        /\ input = NoInput

SpecAll == InitAll /\ [][NextAll]_vars

\* ------------------------------------------------------------ predicates
\* The last call was op on machine m.
Did(op, m) == last.op = op /\ last.m = m

Window(lst) == 0..(Len(lst) - 1)

\* The table key step() looked up, from the state before the last call.
PreKey(m) == <<pre.state[m], PreRead(m, pre.position[m])>>

\* Nothing of machine m differs from before the last call.
Untouched(m) ==
    /\ state[m] = pre.state[m]
    /\ position[m] = pre.position[m]
    /\ step[m] = pre.step[m]
    /\ Tape(m) = PreTape(m)
    /\ Len(Tape(m)) = Len(PreTape(m))
    /\ offset[m] = pre.offset[m]

\* ------------------------------------------------------------------- C1
\* C1: when state != 0 and the table has an entry for (state,
\* current_value()), one call of step() returns false, adds exactly 1 to
\* step_count, stores the entry's end_value in the cell at the pre-step
\* position, sets state to the entry's end_state and moves position by the
\* entry's direction (-1, 0 or +1); the entry is the one keyed by the value
\* read before the write.
C1_StepFires ==
    \A m \in Machines :
        (/\ Did("step", m)
         /\ pre.state[m] # 0
         /\ DictHas(instructions_map[m], PreKey(m)))
        => LET instr == DictGet(instructions_map[m], PreKey(m))
           IN /\ last.ret = FALSE
              /\ step[m] = pre.step[m] + 1
              /\ Read(m, pre.position[m]) = instr.end_value
              /\ state[m] = instr.end_state
              /\ position[m] = pre.position[m] + instr.direction
              /\ instr.direction \in {0 - 1, 0, 1}

\* A step that fired, flipped the cell it read and moved the head.
C1_Witness ==
    \E m \in Machines :
        /\ Did("step", m)
        /\ last.ret = FALSE
        /\ Read(m, pre.position[m]) # PreRead(m, pre.position[m])
        /\ position[m] # pre.position[m]
        /\ state[m] # pre.state[m]

\* ------------------------------------------------------------------- C2
\* C2: when state == 0, step() returns true and leaves state, position,
\* step_count, the tape window and the tape offset unchanged, also when the
\* table has an entry whose start_state is 0.
C2_HaltOnStateZero ==
    \A m \in Machines :
        (Did("step", m) /\ pre.state[m] = 0)
        => (last.ret = TRUE /\ Untouched(m))

\* step() was called in state 0 with a table entry for (0, value read).
C2_Witness ==
    \E m \in Machines :
        /\ Did("step", m)
        /\ pre.state[m] = 0
        /\ DictHas(instructions_map[m], PreKey(m))

\* ------------------------------------------------------------------- C3
\* C3: when the table has no entry for (state, current_value()), step()
\* returns true and leaves state, position, step_count, the tape window
\* (contents and length) and the offset unchanged, also when the head is
\* outside the materialized window.
C3_HaltOnUndefined ==
    \A m \in Machines :
        (Did("step", m) /\ ~DictHas(instructions_map[m], PreKey(m)))
        => (last.ret = TRUE /\ Untouched(m))

\* step() found no entry while in a state other than 0 with the head
\* outside the window.
C3_Witness ==
    \E m \in Machines :
        /\ Did("step", m)
        /\ pre.state[m] # 0
        /\ ~DictHas(instructions_map[m], PreKey(m))
        /\ GetCursor(pre.offset[m], pre.position[m]) \notin Window(PreTape(m))

\* ------------------------------------------------------------------- C4
\* C4: when only step() is called, once a call of step() has returned
\* true every later call returns true too and state, position, step_count
\* and tape contents stay as they were at the first halting call.
C4_HaltingAbsorbing ==
    \A m \in Machines :
        /\ \A i, j \in 1..Len(rets[m]) : (i < j /\ rets[m][i]) => rets[m][j]
        /\ halted_at[m] # <<>> => Configuration(m) = halted_at[m][1]

\* step() fired, then halted on an undefined transition, then was called
\* again.
C4_Witness ==
    \E m \in Machines :
        /\ Len(rets[m]) >= 3
        /\ ~rets[m][1]
        /\ rets[m][Len(rets[m]) - 1]
        /\ state[m] # 0

\* ------------------------------------------------------------------- C5
\* is_halted(): state == 0, or no table entry for (state, current_value()).
Halted(m) ==
    \/ state[m] = 0
    \/ ~DictHas(instructions_map[m], <<state[m], Read(m, position[m])>>)

PreHalted(m) ==
    \/ pre.state[m] = 0
    \/ ~DictHas(instructions_map[m], PreKey(m))

\* C5 as stated: a halted Machine is still halted after any one of its
\* public operations, set_current_value(v) included.
C5_AsStated ==
    \A m \in Machines : PreHalted(m) => Halted(m)

\* C5 (amended): a halted Machine is still halted, with state, position,
\* step_count and tape unchanged, after step(), current_value(),
\* describe_configuration() and describe_instructions(); a Machine halted
\* with state == 0 is still halted after set_current_value(v) too.  Only
\* set_current_value(v) on a Machine halted by an undefined transition can
\* leave the terminal condition.
C5_HaltedStays ==
    \A m \in Machines :
        PreHalted(m) =>
            /\ last.op # "setval" => (Halted(m) /\ Untouched(m))
            /\ pre.state[m] = 0 => Halted(m)
            /\ last.op = "step" => last.ret = TRUE

\* A halted machine was stepped again after an earlier step had fired, and
\* the setter was called on a machine halted in state 0.
C5_Witness ==
    \E m \in Machines :
        /\ PreHalted(m)
        /\ \/ (Did("step", m) /\ pre.step[m] > 0 /\ pre.state[m] # 0)
           \/ (Did("setval", m) /\ pre.state[m] = 0
               /\ Read(m, position[m]) # PreRead(m, position[m]))

\* ------------------------------------------------------------------- C6
\* C6: a read at a coordinate that was written returns the last value
\* written there, whatever writes (growing the window leftward or rightward)
\* came after it.
C6_ReadAfterWrite ==
    \A m \in Machines :
        /\ \A c \in DOMAIN written[m] : Read(m, c) = written[m][c]
        /\ (last.m = m /\ last.op \in {"getitem", "val"}
                /\ last.key \in DOMAIN written[m])
           => last.ret = written[m][last.key]

\* A write grew the window leftward, and another one rightward, after
\* TRUE had been written at a third coordinate.
C6_Witness ==
    \E m \in Machines :
        /\ Did("setitem", m)
        /\ Len(Tape(m)) > Len(PreTape(m))
        /\ offset[m] = pre.offset[m]
        /\ offset[m] > 0
        /\ \E c \in DOMAIN written[m] :
               /\ c # last.key
               /\ c >= 0
               /\ written[m][c] = TRUE
               /\ \E b \in DOMAIN written[m] : b < 0

\* ------------------------------------------------------------------- C7
ProbeCoords == (0 - (MaxPos + MaxOps + 2))..(MaxPos + MaxOps + 2)

InitialSpan(m) == Window(initial[m])

\* C7: a coordinate never written reads false when it lies outside the
\* initial span (outside the window or materialized as filler by a growth)
\* and reads its initial value inside the initial span.
C7_BlankDefault ==
    \A m \in Machines :
        /\ \A c \in ProbeCoords \ DOMAIN written[m] :
               Read(m, c) = IF c \in InitialSpan(m)
                            THEN initial[m][c + 1] ELSE FALSE
        /\ (last.m = m /\ last.op \in {"getitem", "val"}
                /\ last.key \notin DOMAIN written[m]
                /\ last.key \notin InitialSpan(m))
           => last.ret = FALSE

\* After writes of TRUE, the window holds filler cells on both sides of the
\* initial span that were never written, and an initial TRUE cell was never
\* written either.
C7_Witness ==
    \E m \in Machines :
        LET filler == {c \in ProbeCoords :
                          /\ c + offset[m] \in Window(Tape(m))
                          /\ c \notin DOMAIN written[m]
                          /\ c \notin InitialSpan(m)}
        IN /\ \E c \in filler : c < 0
           /\ \E c \in filler : c > 0
           /\ \A c \in DOMAIN written[m] : written[m][c] = TRUE
           /\ \E c \in InitialSpan(m) \ DOMAIN written[m] : initial[m][c + 1]

\* ------------------------------------------------------------------- C8
\* C8: a read at any coordinate, inside or outside the window, leaves the
\* window's contents, its length and the offset unchanged.
C8_ReadsDoNotMutate ==
    \A m \in Machines :
        (last.m = m /\ last.op \in {"getitem", "val"})
        => /\ Tape(m) = PreTape(m)
           /\ Len(Tape(m)) = Len(PreTape(m))
           /\ offset[m] = pre.offset[m]
           /\ heap = pre.heap

\* A read left of a window that had already grown.
C8_Witness ==
    \E m \in Machines :
        /\ Did("getitem", m)
        /\ last.key + pre.offset[m] < 0
        /\ pre.offset[m] > 0

\* ------------------------------------------------------------------- C9
\* The last call was a write on m's strip (direct, by the setter, or by a
\* step that fired) whose index was left of the window.
WroteLeftOfWindow(m) ==
    /\ last.m = m
    /\ \/ last.op \in {"setitem", "setval"}
       \/ (last.op = "step" /\ last.ret = FALSE)
    /\ last.key + pre.offset[m] < 0

\* C9: the offset starts at 0 and never decreases; it changes only on a
\* write that extends the window leftward, and reads, in-window writes and
\* rightward growth leave it unchanged.
C9_OffsetMonotonic ==
    \A m \in Machines :
        /\ last.op = "init" => offset[m] = 0
        /\ offset[m] >= pre.offset[m]
        /\ offset[m] # pre.offset[m]
           => (WroteLeftOfWindow(m) /\ Len(Tape(m)) > Len(PreTape(m)))
        /\ WroteLeftOfWindow(m) => offset[m] > pre.offset[m]

\* A step that fired grew the window leftward after an earlier leftward
\* growth.
C9_Witness ==
    \E m \in Machines :
        /\ Did("step", m)
        /\ pre.offset[m] > 0
        /\ offset[m] > pre.offset[m]

\* ------------------------------------------------------------------ C10
\* Two machines built from the same instruction list and from equal words:
\* either each is handed a list object of its own, or both are handed the
\* same list object, which _TuringStrip.__init__ stores without copying.
InitTwo ==
    \E instructions \in SeqsUpTo(InstructionPool, 1),
       word \in SeqsUpTo(BOOLEAN, MaxWord),
       st \in 1..2,
       listOf \in {[m \in {1, 2} |-> 1], [m \in {1, 2} |-> m]} :
        /\ Construct({1, 2}, instructions, word, st, 0, listOf)
        /\ input = NoInput

SpecTwo == InitTwo /\ [][Next]_vars

\* C10: a step() or set_current_value() on one Machine never changes what
\* another Machine's tape reads or renders, nor its state, position or
\* step_count, also when both were constructed from the same initial tape
\* sequence.
C10_NoSharedState ==
    \A m \in Machines, o \in Machines :
        (o # m /\ last.m = m /\ last.op \in {"step", "setval"})
        => /\ \A c \in ProbeCoords : Read(o, c) = PreRead(o, c)
           /\ StripStr(Tape(o)) = StripStr(PreTape(o))
           /\ state[o] = pre.state[o]
           /\ position[o] = pre.position[o]
           /\ step[o] = pre.step[o]

\* ------------------------------------------------------------------ C11
\* main was given these lines and this word.
Scenario(lines, word_str) == input = [lines |-> lines, word |-> word_str]

\* The k-th call of step() on machine 1 has just been counted and returned
\* ret, leaving this rendered tape, state, position and step count.
AfterStep(k, ret, tape, st, pos, cnt) ==
    Len(rets[1]) = k =>
        /\ rets[1][k] = ret
        /\ StripStr(Tape(1)) = tape
        /\ state[1] = st
        /\ position[1] = pos
        /\ step[1] = cnt

LinesAsStated ==
    << <<"q", "1", "0", "0", "q", "1", "1", "S">>,
       <<"q", "1", "1", "0", "q", "2", "0", "R">> >>

LinesUnary ==
    << <<"q", "1", "0", "q", "1", "1", "S">>,
       <<"q", "1", "1", "q", "2", "1", "R">> >>

\* C11 as stated: with the instructions parsed from "q100q11S" and
\* "q110q20R", tape "01", state 1, position 0, the 1st step() returns false
\* and leaves tape "11", state 1, position 0, step_count 1; the 2nd returns
\* false and leaves tape "11", state 2, position 1, step_count 2; the 3rd
\* returns true with step_count 2.
C11_AsStated ==
    Scenario(LinesAsStated, <<"0", "1">>) =>
        /\ AfterStep(1, FALSE, <<"1", "1">>, 1, 0, 1)
        /\ AfterStep(2, FALSE, <<"1", "1">>, 2, 1, 2)
        /\ AfterStep(3, TRUE, <<"1", "1">>, 2, 1, 2)

\* C11 (amended): "q100q11S" and "q110q20R" parse to q10 0 -> q1 1 S and
\* q11 0 -> q2 0 R, so from state 1 every step() returns true and leaves
\* tape "01", state 1, position 0, step_count 0; the run described is the
\* one of the instructions parsed from "q10q11S" and "q11q21R".
C11_UnaryIncrement ==
    /\ Scenario(LinesAsStated, <<"0", "1">>) =>
           /\ given[1] = <<TuringInstruction(10, FALSE, 1, TRUE, S),
                           TuringInstruction(11, FALSE, 2, FALSE, R)>>
           /\ \A k \in 1..MaxOps :
                  AfterStep(k, TRUE, <<"0", "1">>, 1, 0, 0)
    /\ Scenario(LinesUnary, <<"0", "1">>) =>
           /\ given[1] = <<TuringInstruction(1, FALSE, 1, TRUE, S),
                           TuringInstruction(1, TRUE, 2, TRUE, R)>>
           /\ AfterStep(1, FALSE, <<"1", "1">>, 1, 0, 1)
           /\ AfterStep(2, FALSE, <<"1", "1">>, 2, 1, 2)
           /\ AfterStep(3, TRUE, <<"1", "1">>, 2, 1, 2)

\* The third step() of the run from "q10q11S" and "q11q21R" has returned.
C11_Witness ==
    /\ Scenario(LinesUnary, <<"0", "1">>)
    /\ Len(rets[1]) = 3
    /\ last.op = "step"

\* ------------------------------------------------------------------ C12
LinesLeft == << <<"q", "1", "0", "q", "1", "0", "L">> >>

\* C12 as stated: with the empty tape, state 1, position 0 and the
\* instruction parsed from "q10q10L", every step(), the first included,
\* writes one cell left of the previous write, grows the window leftward by
\* exactly one blank and adds exactly one to the offset.
C12_AsStated ==
    (Scenario(LinesLeft, <<>>) /\ last.op = "step") =>
        /\ last.ret = FALSE
        /\ last.key = 1 - Len(rets[1])
        /\ Tape(1) = <<FALSE>> \o PreTape(1)
        /\ offset[1] = pre.offset[1] + 1

\* C12 (amended): the first step() writes at position 0 and appends one
\* blank to the empty window with the offset left at 0; every later step()
\* writes one cell left of the previous write, prepends exactly one blank
\* and adds exactly one to the offset.
C12_LeftwardGrowth ==
    (Scenario(LinesLeft, <<>>) /\ last.op = "step") =>
        /\ last.ret = FALSE
        /\ last.key = 1 - Len(rets[1])
        /\ position[1] = last.key - 1
        /\ Len(rets[1]) = 1 =>
               /\ PreTape(1) = <<>>
               /\ Tape(1) = <<FALSE>>
               /\ offset[1] = 0
        /\ Len(rets[1]) > 1 =>
               /\ Tape(1) = <<FALSE>> \o PreTape(1)
               /\ offset[1] = pre.offset[1] + 1
               /\ offset[1] = Len(rets[1]) - 1

\* The third step() of the run from "q10q10L" has returned.
C12_Witness ==
    /\ Scenario(LinesLeft, <<>>)
    /\ last.op = "step"
    /\ Len(rets[1]) = 3
    /\ offset[1] = 2

\* ------------------------------------------------------------------ C13
\* The number of spaces a line starts with.
LeadingSpaces(line) ==
    Cardinality({i \in 1..Len(line) : \A k \in 1..i : line[k] = " "})

\* C13: in every snapshot of get_current_description, the number of
\* leading spaces before the "^" of the pointer line equals the cursor
\* index position + offset.
C13_PointerAtCursor ==
    \A m \in Machines :
        Did("describe", m) =>
            LeadingSpaces(last.out[4]) = GetCursor(offset[m], position[m])

\* ------------------------------------------------------------------ C14
KeyOf(instr) == <<instr.start_state, instr.start_value>>

\* The places of the instructions with key k in the list a machine was
\* built from.
PlacesOf(m, k) == {i \in 1..Len(given[m]) : KeyOf(given[m][i]) = k}

\* C14: after construction, and after any call, each key (start_state,
\* start_value) of the instruction list resolves to exactly one
\* instruction, the last one of the list with that key, and the table has
\* no other key.
C14_LastWriterWins ==
    \A m \in Machines :
        LET map == instructions_map[m]
        IN /\ \A i \in 1..Len(given[m]) :
                  LET k == KeyOf(given[m][i])
                      lastPlace == CHOOSE j \in PlacesOf(m, k) :
                                       \A h \in PlacesOf(m, k) : h <= j
                  IN /\ DictHas(map, k)
                     /\ DictGet(map, k) = given[m][lastPlace]
                     /\ Cardinality({e \in 1..Len(map) : map[e][1] = k}) = 1
           /\ \A e \in 1..Len(map) : PlacesOf(m, map[e][1]) # {}
           /\ \A e \in 1..Len(map) : KeyOf(map[e][2]) = map[e][1]

\* A step fired with the second of two different instructions that have
\* the same key.
C14_Witness ==
    \E m \in Machines :
        /\ Len(given[m]) = 2
        /\ KeyOf(given[m][1]) = KeyOf(given[m][2])
        /\ given[m][1] # given[m][2]
        /\ Did("step", m)
        /\ last.ret = FALSE
        /\ state[m] = given[m][2].end_state
        /\ position[m] = pre.position[m] + given[m][2].direction
        /\ position[m] # pre.position[m] + given[m][1].direction

\* ------------------------------------------------------------------ C15
\* Two machines built from the same arguments, on which only step() is
\* called, in any interleaving.
SpecTwoStep == InitTwo /\ [][NextStep]_vars

\* C15: two Machines freshly constructed from identical instruction list,
\* initial tape contents, initial state and initial position, and driven by
\* the same number of step() calls, end in identical state, position, tape
\* contents, offset and step_count and have returned the same flags.
C15_StepDeterminism ==
    \A m \in Machines, o \in Machines :
        Len(rets[m]) = Len(rets[o]) =>
            /\ Configuration(m) = Configuration(o)
            /\ rets[m] = rets[o]

\* ------------------------------------------------------------------ C16
\* The number of calls of step() on machine m that returned false.
FiredCalls(m) == Cardinality({i \in 1..Len(rets[m]) : ~rets[m][i]})

\* C16: step_count is 0 after construction, never decreases, and equals
\* the number of step() calls that returned false; a call that returns true
\* leaves it unchanged.
C16_StepCount ==
    \A m \in Machines :
        /\ last.op = "init" => step[m] = 0
        /\ step[m] >= pre.step[m]
        /\ step[m] = FiredCalls(m)
        /\ (Did("step", m) /\ last.ret = TRUE) => step[m] = pre.step[m]
        /\ (Did("step", m) /\ last.ret = FALSE) => step[m] = pre.step[m] + 1

\* step() fired, then the setter was called, then step() returned true.
C16_Witness ==
    \E m \in Machines :
        /\ Did("step", m)
        /\ last.ret = TRUE
        /\ step[m] = 1
        /\ nops = 3
        /\ Len(rets[m]) = 2

\* ------------------------------------------------------------------ C17
\* The last call wrote value last.value at coordinate last.key of m's
\* strip: a direct write, the val setter, or a step that fired.
Wrote(m) ==
    /\ last.m = m
    /\ \/ last.op \in {"setitem", "setval"}
       \/ (last.op = "step" /\ last.ret = FALSE)

\* C17: write(p, v) with index i = p + offset: for i < 0 exactly -i blanks
\* are prepended, the offset grows by -i and p maps to index 0; for
\* i >= length exactly i - length + 1 blanks are appended, the offset is
\* unchanged and p maps to the last index; otherwise length and offset are
\* unchanged; in each case the cell at p takes v and every other cell that
\* was materialized keeps its value.
C17_GrowthAlgorithm ==
    \A m \in Machines :
        Wrote(m) =>
            LET p == last.key
                i == p + pre.offset[m]
                old == PreTape(m)
                new == Tape(m)
            IN /\ i < 0 =>
                   /\ new = [Blanks(0 - i) \o old EXCEPT ![1] = last.value]
                   /\ Len(new) = Len(old) + (0 - i)
                   /\ offset[m] = pre.offset[m] + (0 - i)
                   /\ GetCursor(offset[m], p) = 0
               /\ i >= Len(old) =>
                   /\ new = [old \o Blanks(i - Len(old) + 1)
                                 EXCEPT ![i + 1] = last.value]
                   /\ Len(new) = i + 1
                   /\ offset[m] = pre.offset[m]
                   /\ GetCursor(offset[m], p) = Len(new) - 1
               /\ i \in Window(old) =>
                   /\ Len(new) = Len(old)
                   /\ offset[m] = pre.offset[m]
                   /\ new = [old EXCEPT ![i + 1] = last.value]
               /\ Read(m, p) = last.value
               /\ \A c \in ProbeCoords \ {p} :
                      c + pre.offset[m] \in Window(old)
                      => Read(m, c) = PreRead(m, c)

\* A write of TRUE two cells left of a window that holds a TRUE cell and
\* had grown rightward before.
C17_Witness ==
    \E m \in Machines :
        /\ Did("setitem", m)
        /\ last.value = TRUE
        /\ last.key + pre.offset[m] = 0 - 2
        /\ Len(PreTape(m)) > Len(initial[m])
        /\ \E k \in 1..Len(PreTape(m)) : PreTape(m)[k]

\* ------------------------------------------------------------------ C18
\* C18: a step() that returns false changes the tape at no coordinate
\* other than the pre-step head position, also when it grows the window.
C18_StepFrame ==
    \A m \in Machines :
        (Did("step", m) /\ last.ret = FALSE) =>
            \A c \in ProbeCoords \ {pre.position[m]} :
                Read(m, c) = PreRead(m, c)

\* A step wrote TRUE more than one cell outside the window.
C18_Witness ==
    \E m \in Machines :
        /\ Did("step", m)
        /\ last.ret = FALSE
        /\ last.value = TRUE
        /\ Len(Tape(m)) > Len(PreTape(m)) + 1

\* ------------------------------------------------------------------ C19
\* C19: once a step() has returned false, the cursor index position +
\* offset lies between -1 and the window length inclusive.
C19_HeadLocality ==
    \A m \in Machines :
        step[m] >= 1 =>
            GetCursor(offset[m], position[m]) \in (0 - 1)..Len(Tape(m))

\* A second step fired with the head one cell left of the window and left
\* the head one cell left of the grown window again.
C19_Witness ==
    \E m \in Machines :
        /\ Did("step", m)
        /\ last.ret = FALSE
        /\ step[m] >= 2
        /\ GetCursor(offset[m], position[m]) = 0 - 1
        /\ GetCursor(pre.offset[m], pre.position[m]) = 0 - 1

====
